---- MODULE Spec2Model ----
(***************************************************************************)
(* topgrade: the step-execution engine driven by run() and main() of       *)
(* src/main.rs.  The driver (run, main) is translated from src/main.rs;    *)
(* the Runner, the Report, the command executor and the elevation provider *)
(* live in modules runner, report, executor and sudo, and are modelled     *)
(* from their description in the specification (sections 4.2 - 4.6).      *)
(***************************************************************************)
EXTENDS Integers, Sequences, FiniteSets, TLC

\* ---------------------------------------------------------------- bounds
\* How many runner.execute calls of each cfg block of run() are modelled
\* (a prefix of the block, in source order).
MaxBlockCalls == 1
\* Size of the allow-list of steps the configuration enables.
MaxEnabled == 2

\* ------------------------------------------------------- the step catalog
\* One runner.execute(Step::step, key, body) call of run().
Call(step, key, group) == [step |-> step, key |-> key, group |-> group]

Min(a, b) == IF a < b THEN a ELSE b

Prefix(s, n) == SubSeq(s, 1, Min(n, Len(s)))

LinuxCalls ==
    << Call("Shell", "packer.nu", "platform"),
       Call("System", "System update", "platform"),
       Call("ConfigUpdate", "config-update", "platform"),
       Call("AM", "am", "platform"),
       Call("AppMan", "appman", "platform"),
       Call("DebGet", "deb-get", "platform"),
       Call("Toolbx", "toolbx", "platform"),
       Call("Snap", "snap", "platform"),
       Call("Pacstall", "pacstall", "platform"),
       Call("Pacdef", "pacdef", "platform"),
       Call("Protonup", "protonup", "platform"),
       Call("Distrobox", "distrobox", "platform"),
       Call("DkpPacman", "dkp-pacman", "platform"),
       Call("System", "pihole", "platform"),
       Call("Firmware", "Firmware upgrades", "platform"),
       Call("Restarts", "Restarts", "platform"),
       Call("Flatpak", "Flatpak", "platform"),
       Call("BrewFormula", "Brew", "platform"),
       Call("Lure", "LURE", "platform"),
       Call("Waydroid", "Waydroid", "platform"),
       Call("AutoCpufreq", "auto-cpufreq", "platform"),
       Call("CinnamonSpices", "Cinnamon spices", "platform") >>

UnixCalls ==
    << Call("Yadm", "yadm", "generic"),
       Call("Nix", "nix", "generic"),
       Call("Nix", "nix upgrade-nix", "generic"),
       Call("NixHelper", "nh", "generic"),
       Call("Guix", "guix", "generic"),
       Call("HomeManager", "home-manager", "generic"),
       Call("Asdf", "asdf", "generic"),
       Call("Mise", "mise", "generic"),
       Call("Pkgin", "pkgin", "generic"),
       Call("BunPackages", "bun-packages", "generic"),
       Call("Shell", "zr", "generic"),
       Call("Shell", "antibody", "generic"),
       Call("Shell", "antidote", "generic"),
       Call("Shell", "antigen", "generic"),
       Call("Shell", "zgenom", "generic"),
       Call("Shell", "zplug", "generic"),
       Call("Shell", "zinit", "generic"),
       Call("Shell", "zi", "generic"),
       Call("Shell", "zim", "generic"),
       Call("Shell", "oh-my-zsh", "generic"),
       Call("Shell", "oh-my-bash", "generic"),
       Call("Shell", "fisher", "generic"),
       Call("Shell", "bash-it", "generic"),
       Call("Shell", "oh-my-fish", "generic"),
       Call("Shell", "fish-plug", "generic"),
       Call("Shell", "fundle", "generic"),
       Call("Tmux", "tmux", "generic"),
       Call("Tldr", "TLDR", "generic"),
       Call("Pearl", "pearl", "generic"),
       Call("GnomeShellExtensions", "Gnome Shell Extensions", "generic"),
       Call("Pyenv", "pyenv", "generic"),
       Call("Sdkman", "SDKMAN!", "generic"),
       Call("Rcm", "rcm", "generic"),
       Call("Maza", "maza", "generic") >>

GenericCalls ==
    << Call("Atom", "apm", "generic"),
       Call("Fossil", "fossil", "generic"),
       Call("Elan", "elan", "generic"),
       Call("Rye", "rye", "generic"),
       Call("Rustup", "rustup", "generic"),
       Call("Juliaup", "juliaup", "generic"),
       Call("Dotnet", ".NET", "generic"),
       Call("Choosenim", "choosenim", "generic"),
       Call("Cargo", "cargo", "generic"),
       Call("Flutter", "Flutter", "generic"),
       Call("Go", "go-global-update", "generic"),
       Call("Go", "gup", "generic"),
       Call("Emacs", "Emacs", "generic"),
       Call("Opam", "opam", "generic"),
       Call("Vcpkg", "vcpkg", "generic"),
       Call("Pipx", "pipx", "generic"),
       Call("Pipxu", "pipxu", "generic"),
       Call("Vscode", "Visual Studio Code extensions", "generic"),
       Call("Vscodium", "VSCodium extensions", "generic"),
       Call("Conda", "conda", "generic"),
       Call("Mamba", "mamba", "generic"),
       Call("Pixi", "pixi", "generic"),
       Call("Miktex", "miktex", "generic"),
       Call("Pip3", "pip3", "generic"),
       Call("PipReview", "pip-review", "generic"),
       Call("PipReviewLocal", "pip-review (local)", "generic"),
       Call("Pipupgrade", "pipupgrade", "generic"),
       Call("Ghcup", "ghcup", "generic"),
       Call("Stack", "stack", "generic"),
       Call("Tlmgr", "tlmgr", "generic"),
       Call("Myrepos", "myrepos", "generic"),
       Call("Chezmoi", "chezmoi", "generic"),
       Call("Jetpack", "jetpack", "generic"),
       Call("Vim", "vim", "generic"),
       Call("Vim", "Neovim", "generic"),
       Call("Vim", "The Ultimate vimrc", "generic"),
       Call("Vim", "voom", "generic"),
       Call("Kakoune", "Kakoune", "generic"),
       Call("Helix", "helix", "generic"),
       Call("Node", "npm", "generic"),
       Call("Yarn", "yarn", "generic"),
       Call("Pnpm", "pnpm", "generic"),
       Call("VoltaPackages", "volta packages", "generic"),
       Call("Containers", "Containers", "generic"),
       Call("Deno", "deno", "generic"),
       Call("Composer", "composer", "generic"),
       Call("Krew", "krew", "generic"),
       Call("Helm", "helm", "generic"),
       Call("Gem", "gem", "generic"),
       Call("RubyGems", "rubygems", "generic"),
       Call("Julia", "julia", "generic"),
       Call("Haxelib", "haxelib", "generic"),
       Call("Sheldon", "sheldon", "generic"),
       Call("Stew", "stew", "generic"),
       Call("Rtcl", "rtcl", "generic"),
       Call("Bin", "bin", "generic"),
       Call("Gcloud", "gcloud", "generic"),
       Call("Micro", "micro", "generic"),
       Call("Raco", "raco", "generic"),
       Call("Spicetify", "spicetify", "generic"),
       Call("GithubCliExtensions", "GitHub CLI Extensions", "generic"),
       Call("Bob", "Bob", "generic"),
       Call("Certbot", "Certbot", "generic"),
       Call("GitRepos", "Git Repositories", "generic"),
       Call("ClamAvDb", "ClamAV Databases", "generic"),
       Call("PlatformioCore", "PlatformIO Core", "generic"),
       Call("Lensfun", "Lensfun's database update", "generic"),
       Call("Poetry", "Poetry", "generic"),
       Call("Uv", "uv", "generic"),
       Call("Zvm", "ZVM", "generic"),
       Call("Aqua", "aqua", "generic"),
       Call("Bun", "bun", "generic"),
       Call("Zigup", "zigup", "generic"),
       Call("JetbrainsToolbox", "JetBrains Toolbox", "generic"),
       Call("AndroidStudio", "Android Studio plugins", "generic"),
       Call("JetbrainsAqua", "JetBrains Aqua plugins", "generic"),
       Call("JetbrainsClion", "JetBrains CLion plugins", "generic"),
       Call("JetbrainsDatagrip", "JetBrains DataGrip plugins", "generic"),
       Call("JetbrainsDataspell", "JetBrains DataSpell plugins", "generic"),
       Call("JetbrainsGateway", "JetBrains Gateway plugins", "generic"),
       Call("JetbrainsGoland", "JetBrains GoLand plugins", "generic"),
       Call("JetbrainsIdea", "JetBrains IntelliJ IDEA plugins", "generic"),
       Call("JetbrainsMps", "JetBrains MPS plugins", "generic"),
       Call("JetbrainsPhpstorm", "JetBrains PhpStorm plugins", "generic"),
       Call("JetbrainsPycharm", "JetBrains PyCharm plugins", "generic"),
       Call("JetbrainsRider", "JetBrains Rider plugins", "generic"),
       Call("JetbrainsRubymine", "JetBrains RubyMine plugins", "generic"),
       Call("JetbrainsRustrover", "JetBrains RustRover plugins", "generic"),
       Call("JetbrainsWebstorm", "JetBrains WebStorm plugins", "generic"),
       Call("Yazi", "Yazi packages", "generic") >>

\* Lines 204-215 (windows).
WindowsCalls ==
    << Call("Wsl", "WSL", "platform"),
       Call("WslUpdate", "WSL", "platform"),
       Call("Chocolatey", "Chocolatey", "platform"),
       Call("Scoop", "Scoop", "platform"),
       Call("Winget", "Winget", "platform"),
       Call("System", "Windows update", "platform"),
       Call("MicrosoftStore", "Microsoft Store", "platform") >>

\* Every Step the modelled calls are keyed by (config::Step).
StaticCalls ==
    Prefix(LinuxCalls, MaxBlockCalls) \o Prefix(UnixCalls, MaxBlockCalls)
        \o Prefix(GenericCalls, MaxBlockCalls)

\* The steps a configuration of the model may enable: the step of the first
\* call of each static block, and the steps whose calls depend on the
\* configuration.  Every other step stays disabled.
StepIds ==
    {LinuxCalls[1].step, UnixCalls[1].step, GenericCalls[1].step}
        \cup {"SelfUpdate", "Remotes", "Powershell", "CustomCommands", "Vagrant"}

\* --------------------------------------------------------- configuration
\* utils::hostname(): the name of the invoking host.
hostname == "alpha"

\* config.remote_topgrades()
RemoteLists == {<<>>, <<"alpha", "beta", "gamma">>}

\* The names config.should_run_custom_command(name) may accept.
CommandNames == {"backup"}

\* config.pre_commands(), config.commands(), config.post_commands()
CommandLists == {<<>>, <<"backup", "sync">>}

\* vagrant::collect_boxes(&ctx)
BoxLists == {<<>>, <<"default">>}

\* Config::load: the run mode flag and the steps should_run() accepts; one
\* more allow-list holds the two WSL steps of a Windows build.
Configs ==
    [dry_run : BOOLEAN,
     enabled : {E \in SUBSET StepIds : Cardinality(E) <= MaxEnabled}
                   \cup {{WindowsCalls[1].step, WindowsCalls[2].step}}]

\* config.should_run(step)
should_run(cfg, step) == step \in cfg.enabled

\* --------------------------------------------------------------- state
VARIABLES
    pc,                   \* the block of run()/main() entered next
    config,               \* the loaded Config
    ctx,                  \* the ExecutionContext
    topgrades,            \* the list bound at line 196, while it is in scope
    elevation,            \* the cached ElevationState
    cache_hit,            \* the running body's elevate(ctx) found the state resolved
    report,               \* runner.report().data()
    todo,                 \* the calls of the current block still to make
    active,               \* the body of Head(todo) is running
    bodyElev,             \* what elevate returned to the running body
    interrupted,          \* the flag the ctrlc handler sets
    spawned,              \* an external process has been created
    invoked,              \* the bodies invoked so far, in order, and what each returned
    rendered,             \* the entries print_result has shown
    post_command_failed,  \* line 550
    failed,               \* line 578
    declined,             \* the user answered no to "Confirmed?"
    pre_sudo_result,      \* what sudo.elevate(&ctx) returned at line 192
    result,               \* what run() returned
    printed,              \* "Error: ..." lines main() printed
    exit_code             \* the code passed to exit()

vars ==
    <<pc, config, ctx, topgrades, elevation, cache_hit, report, todo, active, bodyElev,
      interrupted, spawned, invoked, rendered, post_command_failed, failed,
      declined, pre_sudo_result, result, printed, exit_code>>

\* executor::RunType::new(dry_run)
RunType_new(dry_run) == IF dry_run THEN "Simulate" ELSE "Execute"

\* execution_context::ExecutionContext::new(run_type, sudo, &config)
ExecutionContext_new(run_type, sudo, cfg) ==
    [run_type |-> run_type, sudo |-> sudo, config |-> cfg]

\* Mutant of MakeContext: the dry-run flag does not reach the run type.
MakeContextExecute(cfg, sudo) == ExecutionContext_new(RunType_new(FALSE), sudo, cfg)

\* Lines 144-146: the run type from config.dry_run(), the detected sudo.
MakeContext(cfg, sudo) == ExecutionContext_new(RunType_new(cfg.dry_run), sudo, cfg)

Init ==
    /\ pc = "startup"
    /\ config \in Configs
    /\ ctx = ExecutionContext_new("unset", FALSE, config)
    /\ topgrades = <<>>
    /\ elevation = "unknown"
    /\ cache_hit = FALSE
    /\ report = <<>>
    /\ todo = <<>>
    /\ active = FALSE
    /\ bodyElev = "none"
    /\ interrupted = FALSE
    /\ spawned = FALSE
    /\ invoked = <<>>
    /\ rendered = <<>>
    /\ post_command_failed = FALSE
    /\ failed = FALSE
    /\ declined = FALSE
    /\ pre_sudo_result = "none"
    /\ result = "running"
    /\ printed = 0
    /\ exit_code = -1

\* ------------------------------------------------ collaborators of run()
\* Mutant of Record: the entry is put in front of the earlier ones.
RecordFront(rep, call, outcome) ==
    <<[step |-> call.step, key |-> call.key, result |-> outcome]>> \o rep

\* report: push one (key, result) entry, keyed by the step it belongs to.
Record(rep, call, outcome) ==
    Append(rep, [step |-> call.step, key |-> call.key, result |-> outcome])

\* StepResult::failed()
Failed(entry) == entry.result = "Failure"

\* executor: what running one command yields, and how many processes it made.
Executor_run(run_type, intr) ==
    IF run_type = "Simulate"
    THEN {[status |-> "Ok", spawns |-> 0]}
    ELSE {[status |-> "Ok", spawns |-> 1],
          [status |-> "NonZeroExit", spawns |-> 1],
          [status |-> "NotFound", spawns |-> 0]}
         \cup (IF intr THEN {[status |-> "Interrupted", spawns |-> 1]} ELSE {})

\* A step body: finds its tool missing or not configured before running
\* anything, or runs its command and maps the status to a StepError.
Body(run_type, intr) ==
    {[result |-> "NotApplicable", spawns |-> 0]}
    \cup {[result |-> CASE x.status = "Ok" -> "Ok"
                       [] x.status = "NotFound" -> "NotApplicable"
                       [] x.status = "NonZeroExit" -> "ExecutionFailed"
                       [] OTHER -> "Interrupted",
           spawns |-> x.spawns] : x \in Executor_run(run_type, intr)}

\* generic::run_custom_command: one custom command through the executor.
run_custom_command(run_type) ==
    {[ok |-> x.status = "Ok", spawns |-> x.spawns] :
        x \in {y \in Executor_run(run_type, FALSE) : y.status # "NotFound"}}

\* Mutant of Elevate: every call resolves the state anew.
ElevateUncached(state, sudo, run_type) ==
    IF ~sudo
    THEN {[state |-> "Unavailable", ok |-> FALSE, spawns |-> 0]}
    ELSE {[state |-> "NotNeeded", ok |-> TRUE, spawns |-> 0]}
         \cup {[state |-> IF x.status = "Ok" THEN "Available" ELSE "Unavailable",
                ok |-> x.status = "Ok", spawns |-> x.spawns] :
                 x \in {y \in Executor_run(run_type, FALSE) : y.status # "NotFound"}}

\* sudo: elevate(ctx).  The first call resolves the state (asking for
\* confirmation through the executor); later calls return the cached state.
Elevate(state, sudo, run_type) ==
    IF state # "unknown"
    THEN {[state |-> state, ok |-> state # "Unavailable", spawns |-> 0]}
    ELSE IF ~sudo
    THEN {[state |-> "Unavailable", ok |-> FALSE, spawns |-> 0]}
    ELSE {[state |-> "NotNeeded", ok |-> TRUE, spawns |-> 0]}
         \cup {[state |-> IF x.status = "Ok" THEN "Available" ELSE "Unavailable",
                ok |-> x.status = "Ok", spawns |-> x.spawns] :
                 x \in {y \in Executor_run(run_type, FALSE) : y.status # "NotFound"}}

\* config.should_execute_remote(hostname(), t)
should_execute_remote(host, t) == t # host

\* ------------------------------------------------------------ run()
\* `return Err(e)` / `?` in run(): control is back in main().
Return(e) ==
    /\ result' = e
    /\ pc' = "main"

\* Lines 64-147: set-up, the informational early returns, the construction
\* of the ExecutionContext and of the Runner.
Startup ==
    /\ pc = "startup"
    /\ \E how \in {"info", "error", "run"}, sudo \in BOOLEAN :
          CASE how = "info" -> Return("Ok") /\ UNCHANGED ctx
            [] how = "error" -> Return("Other") /\ UNCHANGED ctx
            [] OTHER ->
                 /\ ctx' = MakeContext(config, sudo)
                 /\ pc' = "breaking_changes"
                 /\ UNCHANGED result
    /\ UNCHANGED <<config, topgrades, elevation, cache_hit, report, todo, active,
                   bodyElev, interrupted, spawned, invoked, rendered,
                   post_command_failed, failed, declined, pre_sudo_result, printed,
                   exit_code>>

\* Lines 155-163: the breaking-changes notice and its confirmation prompt.
BreakingChanges ==
    /\ pc = "breaking_changes"
    /\ \E answer \in {"not_asked", "yes", "no", "error"} :
          CASE answer = "no" ->
                 /\ declined' = TRUE
                 /\ exit_code' = 1
                 /\ pc' = "exited"
                 /\ UNCHANGED result
            [] answer = "error" -> Return("Other") /\ UNCHANGED <<declined, exit_code>>
            [] OTHER ->
                 /\ pc' = "self_update"
                 /\ UNCHANGED <<declined, exit_code, result>>
    /\ UNCHANGED <<config, ctx, topgrades, elevation, cache_hit, report, todo, active, bodyElev,
                   interrupted, spawned, invoked, rendered, post_command_failed,
                   failed, pre_sudo_result, printed>>

\* Entering a block of runner.execute calls: the calls it will make.  The
\* list of lines 196-202 is left to the action that uses Enter.
Enter(block, next, calls) ==
    /\ pc = block
    /\ todo = <<>>
    /\ todo' = calls
    /\ pc' = next
    /\ UNCHANGED <<config, ctx, elevation, cache_hit, report, active, bodyElev,
                   interrupted, spawned, invoked, rendered, post_command_failed,
                   failed, declined, pre_sudo_result, result, printed, exit_code>>

\* Lines 168-175.
SelfUpdate ==
    /\ \E should_self_update \in BOOLEAN :
          Enter("self_update", "pre_commands",
                IF should_self_update
                THEN <<Call("SelfUpdate", "Self Update", "self_update")>> ELSE <<>>)
    /\ UNCHANGED topgrades

\* Lines 184-188: config.pre_commands().
PreCommands ==
    /\ \E commands \in CommandLists :
          Enter("pre_commands", "pre_sudo",
                [i \in 1..Len(commands) |-> Call("", commands[i], "pre")])
    /\ UNCHANGED topgrades

\* Mutant of PreSudo: the result of elevate is dropped instead of `?`.
PreSudoIgnoringDenial ==
    /\ pc = "pre_sudo"
    /\ todo = <<>>
    /\ \E pre_sudo \in BOOLEAN :
          IF pre_sudo /\ ctx.sudo
          THEN \E e \in Elevate(elevation, ctx.sudo, ctx.run_type) :
                  /\ elevation' = e.state
                  /\ spawned' = (spawned \/ e.spawns > 0)
                  /\ pre_sudo_result' = IF e.ok THEN "ok" ELSE "denied"
          ELSE UNCHANGED <<elevation, spawned, pre_sudo_result>>
    /\ pc' = "remotes"
    /\ UNCHANGED <<config, ctx, topgrades, cache_hit, report, todo, active, bodyElev, interrupted, invoked,
                   rendered, post_command_failed, failed, declined, result, printed,
                   exit_code>>

\* Mutant of PreSudo: the outcome of elevate is written into the context.
PreSudoUpdatingContext ==
    /\ pc = "pre_sudo"
    /\ todo = <<>>
    /\ \E pre_sudo \in BOOLEAN :
          IF pre_sudo /\ ctx.sudo
          THEN \E e \in Elevate(elevation, ctx.sudo, ctx.run_type) :
                  /\ elevation' = e.state
                  /\ spawned' = (spawned \/ e.spawns > 0)
                  /\ pre_sudo_result' = IF e.ok THEN "ok" ELSE "denied"
                  /\ ctx' = [ctx EXCEPT !.sudo = e.ok]
                  /\ IF e.ok
                     THEN pc' = "remotes" /\ UNCHANGED result
                     ELSE Return("Other")
          ELSE /\ pc' = "remotes"
               /\ UNCHANGED <<ctx, elevation, spawned, pre_sudo_result, result>>
    /\ UNCHANGED <<config, topgrades, cache_hit, report, todo, active, bodyElev, interrupted, invoked,
                   rendered, post_command_failed, failed, declined, printed, exit_code>>

\* Lines 190-194: config.pre_sudo(); a failed elevate leaves run() through `?`.
PreSudo ==
    /\ pc = "pre_sudo"
    /\ todo = <<>>
    /\ \E pre_sudo \in BOOLEAN :
          IF pre_sudo /\ ctx.sudo
          THEN \E e \in Elevate(elevation, ctx.sudo, ctx.run_type) :
                  /\ elevation' = e.state
                  /\ spawned' = (spawned \/ e.spawns > 0)
                  /\ pre_sudo_result' = IF e.ok THEN "ok" ELSE "denied"
                  /\ IF e.ok
                     THEN pc' = "remotes" /\ UNCHANGED result
                     ELSE Return("Other")
          ELSE /\ pc' = "remotes"
               /\ UNCHANGED <<elevation, spawned, pre_sudo_result, result>>
    /\ UNCHANGED <<config, ctx, topgrades, cache_hit, report, todo, active, bodyElev, interrupted, invoked,
                   rendered, post_command_failed, failed, declined, printed, exit_code>>

\* Line 198: format!("Remote ({remote_topgrade})")
RemoteKey(t) == "Remote (" \o t \o ")"

\* Mutant of Remotes: the list is iterated without the filter.
RemotesUnfiltered ==
    \E list \in RemoteLists :
        /\ Enter("remotes", "platform",
                 [i \in 1..Len(list) |->
                     Call("Remotes", RemoteKey(list[i]), "remote")])
        /\ topgrades' = list

\* Mutant of Remotes: only the first accepted target is dispatched to.
RemotesFirstOnly ==
    \E list \in RemoteLists :
        LET accepted == SelectSeq(list, LAMBDA t : should_execute_remote(hostname, t))
        IN /\ Enter("remotes", "platform",
                    [i \in 1..Min(1, Len(accepted)) |->
                        Call("Remotes", RemoteKey(accepted[i]), "remote")])
           /\ topgrades' = list

\* Lines 196-202: config.remote_topgrades(), filtered with the local hostname.
Remotes ==
    \E list \in RemoteLists :
        LET accepted == SelectSeq(list, LAMBDA t : should_execute_remote(hostname, t))
        IN /\ Enter("remotes", "platform",
                    [i \in 1..Len(accepted) |->
                        Call("Remotes", RemoteKey(accepted[i]), "remote")])
           /\ topgrades' = list

\* The platform block of the build.  Lines 217-257 (target_os = "linux"):
\* "System update" is called only when the distribution was detected, and the
\* unix block follows.  Lines 204-215 (windows), modelled up to the second
\* call under the label "WSL": a Windows build has no unix block.  The list of
\* line 196 is out of scope.
Platform ==
    /\ \/ \E distribution_ok \in BOOLEAN :
             Enter("platform", "unix",
                   SelectSeq(Prefix(LinuxCalls, MaxBlockCalls),
                             LAMBDA c : c.key # "System update" \/ distribution_ok))
       \/ Enter("platform", "generic", Prefix(WindowsCalls, MaxBlockCalls + 1))
    /\ topgrades' = <<>>

\* Lines 312-351 (unix).
Unix ==
    /\ Enter("unix", "generic", Prefix(UnixCalls, MaxBlockCalls))
    /\ UNCHANGED topgrades

\* Mutant of Generic: the calls of the platform block are made here, after
\* the calls of the unix block.
GenericRunsPlatformCalls ==
    /\ Enter("generic", "powershell", Prefix(LinuxCalls, MaxBlockCalls))
    /\ UNCHANGED topgrades

\* Lines 353-506.
Generic ==
    /\ Enter("generic", "powershell", Prefix(GenericCalls, MaxBlockCalls))
    /\ UNCHANGED topgrades

\* Lines 139 and 508-512.
Powershell ==
    \E profile \in BOOLEAN :
        LET should_run_powershell == profile /\ should_run(config, "Powershell")
        IN /\ Enter("powershell", "commands",
                    IF should_run_powershell
                    THEN <<Call("Powershell", "Powershell Modules Update", "generic")>>
                    ELSE <<>>)
           /\ UNCHANGED topgrades

\* Lines 514-522: config.commands(), each behind should_run_custom_command.
CustomCommands ==
    \E commands \in CommandLists,
       allowed \in SUBSET CommandNames :
        LET chosen == SelectSeq(commands, LAMBDA name : name \in allowed)
        IN /\ Enter("commands", "vagrant",
                    [i \in 1..Len(chosen) |-> Call("CustomCommands", chosen[i], "custom")])
           /\ UNCHANGED topgrades

\* Lines 524-533: one call per collected box, then "Vagrant boxes".
Vagrant ==
    \E collected \in BOOLEAN, boxes \in BoxLists :
        LET found == IF should_run(config, "Vagrant") /\ collected THEN boxes ELSE <<>>
        IN /\ Enter("vagrant", "summary",
                    [i \in 1..Len(found) |->
                        Call("Vagrant", "Vagrant (" \o found[i] \o ")", "vagrant")]
                    \o <<Call("Vagrant", "Vagrant boxes", "vagrant")>>)
           /\ UNCHANGED topgrades

\* ------------------------------------------------------ runner.execute
InRun == pc \notin {"startup", "main", "exited"}

IsStep(c) == c.group \notin {"pre", "post"}

\* Mutant of Decide: the enablement of the step is not looked at.
DecideWithoutFilter(cfg, intr, c) == IF intr THEN "cancelled" ELSE "invoke"

\* The Runner's decision before the body: filter out, abort, or invoke.
Decide(cfg, intr, c) ==
    IF ~should_run(cfg, c.step) THEN "filtered"
    ELSE IF intr THEN "cancelled"
    ELSE "invoke"

\* The StepOutcome the Runner records for what the body returned.
Outcome(r) ==
    CASE r = "Ok" -> "Success"
      [] r = "NotApplicable" -> "Skipped"
      [] OTHER -> "Failure"

\* Mutant of ExecuteBegin: the error runner.execute returns is dropped
\* instead of `?`, and run() goes on with the next call.
ExecuteBeginDroppingError ==
    /\ InRun
    /\ todo # <<>>
    /\ IsStep(Head(todo))
    /\ ~active
    /\ LET d == Decide(ctx.config, interrupted, Head(todo))
       IN IF d = "invoke"
          THEN /\ active' = TRUE
               /\ invoked' = Append(invoked, [key |-> Head(todo).key,
                                            group |-> Head(todo).group,
                                            returned |-> "running"])
               /\ UNCHANGED todo
          ELSE /\ todo' = Tail(todo)
               /\ UNCHANGED <<active, invoked>>
    /\ UNCHANGED <<pc, config, ctx, topgrades, elevation, cache_hit, report, bodyElev, interrupted,
                   spawned, rendered, post_command_failed, failed, declined,
                   pre_sudo_result, result, printed, exit_code>>

\* Mutant of ExecuteBegin: the call is made without waiting for the body of
\* the call before it.
ExecuteBeginWithoutWaiting ==
    /\ InRun
    /\ todo # <<>>
    /\ IsStep(Head(todo))
    /\ LET d == Decide(ctx.config, interrupted, Head(todo))
       IN CASE d = "filtered" ->
                 /\ todo' = Tail(todo)
                 /\ UNCHANGED <<active, invoked, pc, result>>
            [] d = "cancelled" ->
                 /\ Return("Interrupted")
                 /\ UNCHANGED <<active, invoked, todo>>
            [] OTHER ->
                 /\ active' = TRUE
                 /\ invoked' = Append(invoked, [key |-> Head(todo).key,
                                                group |-> Head(todo).group,
                                                returned |-> "running"])
                 /\ UNCHANGED <<todo, pc, result>>
    /\ UNCHANGED <<config, ctx, topgrades, elevation, cache_hit, report, bodyElev, interrupted,
                   spawned, rendered, post_command_failed, failed, declined, pre_sudo_result, printed,
                   exit_code>>

\* runner.execute(step, key, body)?  up to the invocation of the body.
ExecuteBegin ==
    /\ InRun
    /\ todo # <<>>
    /\ IsStep(Head(todo))
    /\ ~active
    /\ LET d == Decide(ctx.config, interrupted, Head(todo))
       IN CASE d = "filtered" ->
                 /\ todo' = Tail(todo)
                 /\ UNCHANGED <<active, invoked, pc, result>>
            [] d = "cancelled" ->
                 /\ Return("Interrupted")
                 /\ UNCHANGED <<active, invoked, todo>>
            [] OTHER ->
                 /\ active' = TRUE
                 /\ invoked' = Append(invoked, [key |-> Head(todo).key,
                                            group |-> Head(todo).group,
                                            returned |-> "running"])
                 /\ UNCHANGED <<todo, pc, result>>
    /\ UNCHANGED <<config, ctx, topgrades, elevation, cache_hit, report, bodyElev, interrupted,
                   spawned, rendered, post_command_failed, failed, declined, pre_sudo_result, printed,
                   exit_code>>

\* The running body asks for elevation.
BodyElevate ==
    /\ active
    /\ bodyElev = "none"
    /\ \E e \in Elevate(elevation, ctx.sudo, ctx.run_type) :
          /\ elevation' = e.state
          /\ cache_hit' = (elevation # "unknown")
          /\ spawned' = (spawned \/ e.spawns > 0)
          /\ bodyElev' = IF e.ok THEN "ok" ELSE "denied"
    /\ UNCHANGED <<pc, config, ctx, topgrades, report, todo, active, interrupted, invoked,
                   rendered, post_command_failed, failed, declined, pre_sudo_result, result, printed,
                   exit_code>>

\* What the running body returns.
BodyReturns ==
    IF bodyElev = "denied"
    THEN {[result |-> "ElevationDenied", spawns |-> 0]}
    ELSE Body(ctx.run_type, interrupted)

\* Mutant of Returns: a failed command leaves runner.execute as an error.
ReturnsEveryError(r) ==
    CASE r = "Interrupted" -> "Interrupted"
      [] r = "ExecutionFailed" -> "Other"
      [] OTHER -> "Ok"

\* What runner.execute returns for what the body returned: an interruption
\* is handed on to the caller, every step-level result is kept inside.
Returns(r) == IF r = "Interrupted" THEN "Interrupted" ELSE "Ok"

\* Mutant of ExecuteEnd: after a failed command the call is made again.
ExecuteEndRetrying ==
    /\ active
    /\ \E b \in BodyReturns :
          /\ spawned' = (spawned \/ b.spawns > 0)
          /\ invoked' = [invoked EXCEPT ![Len(invoked)].returned = b.result]
          /\ IF Returns(b.result) # "Ok"
             THEN /\ Return(Returns(b.result))
                  /\ UNCHANGED <<report, todo>>
             ELSE IF b.result = "ExecutionFailed"
             THEN UNCHANGED <<report, todo, pc, result>>
             ELSE /\ report' = Record(report, Head(todo), Outcome(b.result))
                  /\ todo' = Tail(todo)
                  /\ UNCHANGED <<pc, result>>
    /\ active' = FALSE
    /\ bodyElev' = "none"
    /\ cache_hit' = FALSE
    /\ UNCHANGED <<config, ctx, topgrades, elevation, interrupted, rendered,
                   post_command_failed, failed, declined, pre_sudo_result, printed, exit_code>>

\* runner.execute(step, key, body)?  from the return of the body on.
ExecuteEnd ==
    /\ active
    /\ \E b \in BodyReturns :
          /\ spawned' = (spawned \/ b.spawns > 0)
          /\ invoked' = [invoked EXCEPT ![Len(invoked)].returned = b.result]
          /\ IF Returns(b.result) # "Ok"
             THEN /\ Return(Returns(b.result))
                  /\ UNCHANGED <<report, todo>>
             ELSE /\ report' = Record(report, Head(todo), Outcome(b.result))
                  /\ todo' = Tail(todo)
                  /\ UNCHANGED <<pc, result>>
    /\ active' = FALSE
    /\ bodyElev' = "none"
    /\ cache_hit' = FALSE
    /\ UNCHANGED <<config, ctx, topgrades, elevation, interrupted, rendered,
                   post_command_failed, failed, declined, pre_sudo_result, printed, exit_code>>

\* ctrlc: the handler installed at line 66 sets the flag.
Interrupt ==
    /\ InRun
    /\ pc \notin {"post_commands", "keep_at_end", "finish"}
    /\ ~interrupted
    /\ interrupted' = TRUE
    /\ UNCHANGED <<pc, config, ctx, topgrades, elevation, cache_hit, report, todo, active,
                   bodyElev, spawned, invoked, rendered, post_command_failed, failed,
                   declined, pre_sudo_result, result, printed, exit_code>>

\* Mutant of PreCommand: a failed command is recorded as a Failure, like a
\* step of the Runner, and the next command is run.
PreCommandRecorded ==
    /\ InRun
    /\ todo # <<>>
    /\ Head(todo).group = "pre"
    /\ \E r \in run_custom_command(ctx.run_type) :
          /\ spawned' = (spawned \/ r.spawns > 0)
          /\ report' = IF r.ok THEN report ELSE Record(report, Head(todo), "Failure")
    /\ todo' = Tail(todo)
    /\ UNCHANGED <<pc, result, config, ctx, topgrades, elevation, cache_hit, active, bodyElev,
                   interrupted, invoked, rendered, post_command_failed, failed,
                   declined, pre_sudo_result, printed, exit_code>>

\* Line 186: generic::run_custom_command(name, command, &ctx)?
PreCommand ==
    /\ InRun
    /\ todo # <<>>
    /\ Head(todo).group = "pre"
    /\ \E r \in run_custom_command(ctx.run_type) :
          /\ spawned' = (spawned \/ r.spawns > 0)
          /\ IF r.ok
             THEN todo' = Tail(todo) /\ UNCHANGED <<pc, result>>
             ELSE Return("Other") /\ UNCHANGED todo
    /\ UNCHANGED <<config, ctx, topgrades, elevation, cache_hit, report, active, bodyElev,
                   interrupted, invoked, rendered, post_command_failed, failed,
                   declined, pre_sudo_result, printed, exit_code>>

\* Mutant of Summary: the entries are taken out of the Report to be shown.
SummaryDraining ==
    /\ pc = "summary"
    /\ todo = <<>>
    /\ rendered' = IF report # <<>> THEN report ELSE rendered
    /\ report' = <<>>
    /\ pc' = "post_commands"
    /\ UNCHANGED <<config, ctx, topgrades, elevation, cache_hit, todo, active, bodyElev,
                   interrupted, spawned, invoked, post_command_failed, failed,
                   declined, pre_sudo_result, result, printed, exit_code>>

\* Mutant of Summary: only the failed entries are shown.
SummaryOfFailures ==
    /\ pc = "summary"
    /\ todo = <<>>
    /\ rendered' = IF report # <<>> THEN SelectSeq(report, Failed) ELSE rendered
    /\ pc' = "post_commands"
    /\ UNCHANGED <<config, ctx, topgrades, elevation, cache_hit, report, todo, active, bodyElev,
                   interrupted, spawned, invoked, post_command_failed, failed,
                   declined, pre_sudo_result, result, printed, exit_code>>

\* Lines 535-548: the summary of the recorded entries.
Summary ==
    /\ pc = "summary"
    /\ todo = <<>>
    /\ rendered' = IF report # <<>> THEN report ELSE rendered
    /\ pc' = "post_commands"
    /\ UNCHANGED <<config, ctx, topgrades, elevation, cache_hit, report, todo, active, bodyElev,
                   interrupted, spawned, invoked, post_command_failed, failed,
                   declined, pre_sudo_result, result, printed, exit_code>>

\* Lines 550-551: config.post_commands().
PostCommands ==
    /\ \E commands \in CommandLists :
          Enter("post_commands", "keep_at_end",
                [i \in 1..Len(commands) |-> Call("", commands[i], "post")])
    /\ UNCHANGED topgrades

\* Mutant of PostCommand: the error of a failed command leaves run() through
\* `?`, as at line 186.
PostCommandAborting ==
    /\ InRun
    /\ todo # <<>>
    /\ Head(todo).group = "post"
    /\ \E r \in run_custom_command(ctx.run_type) :
          /\ spawned' = (spawned \/ r.spawns > 0)
          /\ IF r.ok
             THEN todo' = Tail(todo) /\ UNCHANGED <<pc, result>>
             ELSE Return("Other") /\ UNCHANGED todo
    /\ UNCHANGED <<config, ctx, topgrades, elevation, cache_hit, report, active, bodyElev,
                   interrupted, invoked, rendered, post_command_failed, failed,
                   declined, pre_sudo_result, printed, exit_code>>

\* Lines 553-555.
PostCommand ==
    /\ InRun
    /\ todo # <<>>
    /\ Head(todo).group = "post"
    /\ \E r \in run_custom_command(ctx.run_type) :
          /\ spawned' = (spawned \/ r.spawns > 0)
          /\ post_command_failed' = (post_command_failed \/ ~r.ok)
    /\ todo' = Tail(todo)
    /\ UNCHANGED <<pc, config, ctx, topgrades, elevation, cache_hit, report, active, bodyElev,
                   interrupted, invoked, rendered, failed, declined, pre_sudo_result, result, printed,
                   exit_code>>

\* Lines 559-576: the (R)eboot / (S)hell / (Q)uit menu.
KeepAtEnd ==
    /\ pc = "keep_at_end"
    /\ todo = <<>>
    /\ \E key \in {"off", "q", "s", "r"}, ok \in BOOLEAN :
          IF key \in {"s", "r"} /\ ~ok
          THEN Return("Other")
          ELSE pc' = "finish" /\ UNCHANGED result
    /\ UNCHANGED <<config, ctx, topgrades, elevation, cache_hit, report, todo, active, bodyElev,
                   interrupted, spawned, invoked, rendered, post_command_failed,
                   failed, declined, pre_sudo_result, printed, exit_code>>

\* Mutant of Overall: the post commands are left out.
OverallReportOnly(post_failed, rep) == \E i \in 1..Len(rep) : Failed(rep[i])

\* Mutant of Overall: every entry that is not a success counts.
OverallCountsSkipped(post_failed, rep) ==
    post_failed \/ \E i \in 1..Len(rep) : rep[i].result # "Success"

\* Line 578.
Overall(post_failed, rep) ==
    post_failed \/ \E i \in 1..Len(rep) : Failed(rep[i])

\* Lines 578-595.
Finish ==
    /\ pc = "finish"
    /\ failed' = Overall(post_command_failed, report)
    /\ Return(IF failed' THEN "StepFailed" ELSE "Ok")
    /\ UNCHANGED <<config, ctx, topgrades, elevation, cache_hit, report, todo, active, bodyElev,
                   interrupted, spawned, invoked, rendered, post_command_failed,
                   declined, pre_sudo_result, printed, exit_code>>

\* Mutant of skip_print: the StepFailed sentinel is printed like any error.
skip_print_interrupted_only(res) == res = "Interrupted"

\* Lines 611-615.
skip_print(res) == res \in {"StepFailed", "Interrupted"}

\* Mutant of ExitCode: only a printed error makes the exit code 1.
ExitCodeOfPrintedError(res) == IF res = "Ok" \/ skip_print(res) THEN 0 ELSE 1

\* Mutant of ExitCode: an interruption by the user counts as a clean exit.
ExitCodeInterruptedOk(res) == IF res \in {"Ok", "Interrupted"} THEN 0 ELSE 1

\* Lines 599-624: the code main() exits with.
ExitCode(res) == IF res = "Ok" THEN 0 ELSE 1

\* Lines 598-625.
Main ==
    /\ pc = "main"
    /\ exit_code' = ExitCode(result)
    /\ printed' = IF result = "Ok" \/ skip_print(result) THEN printed ELSE printed + 1
    /\ pc' = "exited"
    /\ UNCHANGED <<config, ctx, topgrades, elevation, cache_hit, report, todo, active, bodyElev,
                   interrupted, spawned, invoked, rendered, post_command_failed,
                   failed, declined, pre_sudo_result, result>>

Next ==
    \/ Startup
    \/ BreakingChanges
    \/ SelfUpdate
    \/ PreCommands
    \/ PreCommand
    \/ PreSudo
    \/ Remotes
    \/ Platform
    \/ Unix
    \/ Generic
    \/ Powershell
    \/ CustomCommands
    \/ Vagrant
    \/ ExecuteBegin
    \/ BodyElevate
    \/ ExecuteEnd
    \/ Interrupt
    \/ Summary
    \/ PostCommands
    \/ PostCommand
    \/ KeepAtEnd
    \/ Finish
    \/ Main

Spec == Init /\ [][Next]_vars

\* ======================================================== properties
Keys(s) == [i \in 1..Len(s) |-> s[i].key]

IsPrefix(a, b) == Len(a) <= Len(b) /\ SubSeq(b, 1, Len(a)) = a

HasFailure(rep) == \E i \in 1..Len(rep) : rep[i].result = "Failure"

\* The invoked bodies that have returned a step-level result.
Completed == SelectSeq(invoked, LAMBDA v : v.returned \notin {"running", "Interrupted"})

\* run() went through the failure computation of line 578.
Finished == pc \in {"main", "exited"} /\ result \in {"Ok", "StepFailed"}

\* C1: the entries of the Report are in the order in which the bodies were
\* invoked, and no entry belongs to a step the configuration disables.
C1_ReportInInvocationOrder ==
    /\ IsPrefix(Keys(report), Keys(invoked))
    /\ \A i \in 1..Len(report) : should_run(config, report[i].step)

\* A (packer.nu) succeeds, B (yadm) is disabled, C (apm) fails.
C1_Witness ==
    /\ pc = "exited"
    /\ Keys(report) = <<"packer.nu", "apm">>
    /\ report[1].result = "Success"
    /\ report[2].result = "Failure"
    /\ ~should_run(config, "Yadm")
    /\ failed
    /\ exit_code = 1

\* C2: a step has an entry exactly if its body was invoked and returned a
\* result: one entry per returned body, in the same order, at most one body
\* is still without entry, and a filtered step has none.
C2_EntryIffInvoked ==
    /\ Keys(report) = Keys(Completed)
    /\ Len(invoked) - Len(report) <= 1
    /\ active => Len(invoked) = Len(report) + 1
    /\ \A i \in 1..Len(report) : should_run(config, report[i].step)

\* All static calls were made; yadm was filtered, the two others have one
\* entry each, a Skipped and a Failure.
C2_Witness ==
    /\ pc = "commands"
    /\ todo = <<>>
    /\ ~should_run(config, "Yadm")
    /\ Len(report) = 2
    /\ report[1].result = "Skipped"
    /\ report[2].result = "Failure"

\* C3: when a body returns a step-level error, runner.execute records a
\* Failure for that step and returns Ok: run() stays where it is and goes on
\* with the next call.
C3_FailureIsolated ==
    [][(/\ active
        /\ ~active'
        /\ invoked'[Len(invoked')].returned \in {"ExecutionFailed", "ElevationDenied"})
       => /\ report' = Append(report, [step |-> Head(todo).step,
                                       key |-> Head(todo).key,
                                       result |-> "Failure"])
          /\ todo' = Tail(todo)
          /\ pc' = pc
          /\ result' = "running"]_vars

\* A step succeeded after an earlier step had failed.
C3_Witness ==
    \E i, j \in 1..Len(report) :
        /\ i < j
        /\ report[i].result = "Failure"
        /\ invoked[i].returned = "ExecutionFailed"
        /\ report[j].result = "Success"

\* C4: after the failure computation, failed holds exactly if the Report has
\* a Failure entry or a post command failed.
C4_OverallFailure ==
    Finished => (failed <=> (HasFailure(report) \/ post_command_failed))

\* A Report of Skipped entries only, no failed post command: not a failure.
C4_Witness ==
    /\ pc = "exited"
    /\ Len(report) = 2
    /\ \A i \in 1..Len(report) : report[i].result = "Skipped"
    /\ ~post_command_failed
    /\ ~failed
    /\ result = "Ok"

\* C5: the process exits with 0 exactly if run() returned Ok, and with 1 if
\* an entry is a Failure, a post command failed or the prompt was declined.
C5_ExitCode ==
    pc = "exited" =>
        /\ exit_code \in {0, 1}
        /\ (exit_code = 0) <=> (result = "Ok")
        /\ (HasFailure(report) \/ post_command_failed \/ declined) => exit_code = 1

\* Only a post command failed, and the exit code is 1.
C5_Witness ==
    /\ pc = "exited"
    /\ post_command_failed
    /\ report # <<>>
    /\ ~HasFailure(report)
    /\ ~declined
    /\ exit_code = 1

\* C6: a body that ends "not applicable" is recorded as Skipped, and the
\* failure flag and the exit code are what they are without the Skipped
\* entries.
C6_NotApplicableIsSkipped ==
    LET kept == SelectSeq(report, LAMBDA e : e.result # "Skipped")
        bad == post_command_failed \/ \E i \in 1..Len(kept) : kept[i].result = "Failure"
    IN /\ \A i \in 1..Len(report) :
             Completed[i].returned = "NotApplicable" <=> report[i].result = "Skipped"
       /\ Finished => failed = bad
       /\ (Finished /\ pc = "exited") => exit_code = (IF bad THEN 1 ELSE 0)

\* A body ended "not applicable", another one succeeded, the run exits 0.
C6_Witness ==
    /\ pc = "exited"
    /\ Len(report) = 2
    /\ invoked[1].returned = "NotApplicable"
    /\ report[1].result = "Skipped"
    /\ report[2].result = "Success"
    /\ ~failed
    /\ exit_code = 0

C8_ElevationOnce ==
    [][elevation # "unknown"
       => /\ elevation' = elevation
          /\ (bodyElev = "none" /\ bodyElev' # "none")
                => /\ bodyElev' = (IF elevation = "Unavailable" THEN "denied" ELSE "ok")
                   /\ spawned' = spawned
          /\ (pre_sudo_result = "none" /\ pre_sudo_result' # "none")
                => /\ pre_sudo_result' = (IF elevation = "Unavailable" THEN "denied" ELSE "ok")
                   /\ spawned' = spawned]_vars

\* The second body asked for elevation and got the cached answer.
C8_Witness ==
    /\ cache_hit
    /\ elevation = "Available"
    /\ Len(invoked) = 2
    /\ active
    /\ bodyElev = "ok"

\* C9 as stated: no denied elevation ends the run.
C9_DeniedElevationNeverFatal ==
    [][((bodyElev = "none" /\ bodyElev' = "denied")
        \/ (pre_sudo_result = "none" /\ pre_sudo_result' = "denied"))
       => (result' = "running" /\ pc' # "main")]_vars

\* C9 amended: an elevation denied to a step body is not fatal, the step is
\* recorded as a Failure and run() goes on with the next call; an elevation
\* denied to the pre-sudo call of line 192 makes run() return the error.
C9_DeniedElevationFatalOnlyInPreSudo ==
    [][/\ (bodyElev = "none" /\ bodyElev' = "denied")
          => (active' /\ result' = "running" /\ pc' = pc)
       /\ (active /\ bodyElev = "denied" /\ ~active')
          => /\ report' = Append(report, [step |-> Head(todo).step,
                                          key |-> Head(todo).key,
                                          result |-> "Failure"])
             /\ todo' = Tail(todo)
             /\ result' = "running"
             /\ pc' = pc
       /\ (pre_sudo_result = "none" /\ pre_sudo_result' = "denied")
          => (result' = "Other" /\ pc' = "main" /\ report' = report)]_vars

\* A body was denied elevation, and a later body has been invoked.
C9_Witness ==
    /\ Len(invoked) = 2
    /\ invoked[1].returned = "ElevationDenied"
    /\ report[1].result = "Failure"
    /\ active

\* C10: with the flag set and no body running, no body is invoked any more
\* and the Report stays as it is; the next enabled call makes run() return
\* the error to main().
C10_CancelledAtBoundary ==
    [][(interrupted /\ ~active)
       => /\ invoked' = invoked
          /\ report' = report
          /\ ~active'
          /\ (/\ InRun
              /\ todo # <<>>
              /\ IsStep(Head(todo))
              /\ should_run(config, Head(todo).step))
             => (result' = "Interrupted" /\ pc' = "main")]_vars

\* A succeeded, the flag was set, C was not invoked, the process exited.
C10_Witness ==
    /\ pc = "exited"
    /\ interrupted
    /\ result = "Interrupted"
    /\ exit_code = 1
    /\ Len(invoked) = 1
    /\ invoked[1].returned = "Ok"
    /\ Len(report) = 1
    /\ report[1].result = "Success"
    /\ todo # <<>>
    /\ should_run(config, Head(todo).step)

\* C11: when run() is left on a cancellation, the entries recorded so far
\* have been shown in the summary before the process exits.
C11_PartialReportDisplayed ==
    (pc = "exited" /\ result = "Interrupted") => rendered = report

\* C12: a body ended by an interruption gets no Report entry and run()
\* returns the interruption to main(); from then on no body is invoked, the
\* Report stays as it is, and main() exits with code 1.
C12_InterruptionPropagated ==
    [][/\ (/\ active
           /\ ~active'
           /\ invoked'[Len(invoked')].returned = "Interrupted")
          => (report' = report /\ result' = "Interrupted" /\ pc' = "main")
       /\ result = "Interrupted"
          => /\ invoked' = invoked
             /\ report' = report
             /\ ~active'
             /\ pc' = "exited"
             /\ exit_code' = 1]_vars

\* The first body succeeded, the second was interrupted while an enabled
\* call was still to come; the process exited with 1 and one entry.
C12_Witness ==
    /\ pc = "exited"
    /\ exit_code = 1
    /\ Len(invoked) = 2
    /\ invoked[1].returned = "Ok"
    /\ invoked[2].returned = "Interrupted"
    /\ Keys(report) = <<invoked[1].key>>
    /\ Len(todo) = 2
    /\ todo[1].key = invoked[2].key
    /\ should_run(config, todo[2].step)

\* The label a call for the local host would have.
LocalKey == RemoteKey(hostname)

\* C13: no body is invoked and no entry is recorded for the local host;
\* while the configured list is in scope, every remote body that was invoked
\* belongs to a target the filter accepts.
C13_LocalHostNeverDispatched ==
    /\ \A i \in 1..Len(invoked) : invoked[i].key # LocalKey
    /\ \A i \in 1..Len(report) : report[i].key # LocalKey
    /\ topgrades # <<>> =>
          \A i \in 1..Len(invoked) :
              invoked[i].group = "remote" =>
                  \E k \in 1..Len(topgrades) :
                      /\ should_execute_remote(hostname, topgrades[k])
                      /\ invoked[i].key = RemoteKey(topgrades[k])

\* The local host is the first configured target; the remote block is
\* through, and the two other targets have their entries.
C13_Witness ==
    /\ pc = "platform"
    /\ todo = <<>>
    /\ Len(topgrades) = 3
    /\ topgrades[1] = hostname
    /\ Keys(report) = <<RemoteKey("beta"), RemoteKey("gamma")>>

\* The entries recorded for remote targets.
RemoteEntries(rep) == SelectSeq(rep, LAMBDA e : e.step = "Remotes")

\* C14: a remote body that fails is recorded as a Failure under the label
\* of its own target, the calls for the other targets stay to be made and
\* run() goes on; when the remote block is through, every accepted target
\* has one entry of its own, in the configured order.
C14_RemoteTargetsIndependent ==
    [][/\ (/\ active
           /\ ~active'
           /\ Head(todo).group = "remote"
           /\ invoked'[Len(invoked')].returned \in {"ExecutionFailed", "ElevationDenied"})
          => /\ report' = Append(report, [step |-> "Remotes",
                                          key |-> Head(todo).key,
                                          result |-> "Failure"])
             /\ todo' = Tail(todo)
             /\ pc' = pc
             /\ result' = "running"
       /\ (pc' = "platform" /\ todo' = <<>> /\ should_run(config, "Remotes"))
          => LET accepted == SelectSeq(topgrades', LAMBDA t :
                                          should_execute_remote(hostname, t))
             IN Keys(RemoteEntries(report')) =
                    [i \in 1..Len(accepted) |-> RemoteKey(accepted[i])]]_vars

\* Two targets, the first one unreachable, the second one updated, and a
\* local step that succeeded afterwards.
C14_Witness ==
    /\ pc = "exited"
    /\ Len(report) = 3
    /\ report[1] = [step |-> "Remotes", key |-> RemoteKey("beta"), result |-> "Failure"]
    /\ report[2] = [step |-> "Remotes", key |-> RemoteKey("gamma"), result |-> "Success"]
    /\ report[3].step # "Remotes"
    /\ report[3].result = "Success"
    /\ result = "StepFailed"

\* The three groups the claim names: the platform block, the custom
\* commands, and the steps that are neither.
ClaimedRank(group) ==
    CASE group = "platform" -> 1
      [] group = "custom" -> 3
      [] OTHER -> 2

\* C15 as stated: platform steps, then cross-platform steps, then custom
\* commands, and no body of a later group is invoked before one of an
\* earlier group.
C15_ThreeGroupsInOrder ==
    \A i, j \in 1..Len(invoked) :
        i < j => ClaimedRank(invoked[i].group) <= ClaimedRank(invoked[j].group)

\* The blocks of run() in the order of the source text: lines 168, 196,
\* 217, 312-512, 514 and 524.
BlockRank(group) ==
    CASE group = "self_update" -> 1
      [] group = "remote" -> 2
      [] group = "platform" -> 3
      [] group = "generic" -> 4
      [] group = "custom" -> 5
      [] OTHER -> 6

\* C15 amended: the bodies are invoked in the order self-update, remote
\* targets, platform block, cross-platform block, custom commands, Vagrant
\* steps, whatever the earlier bodies returned: a body that is invoked is
\* never of an earlier block than a body invoked before it.
C15_BlocksInOrder ==
    [][Len(invoked') > Len(invoked)
       => \A i \in 1..Len(invoked) :
              BlockRank(invoked[i].group) <= BlockRank(invoked'[Len(invoked')].group)]_vars

\* A custom command failed, and the two Vagrant steps ran after it.
C15_Witness ==
    /\ pc = "exited"
    /\ Len(invoked) = 3
    /\ invoked[1].group = "custom"
    /\ invoked[1].returned = "ExecutionFailed"
    /\ invoked[2].key = "Vagrant (default)"
    /\ invoked[3].key = "Vagrant boxes"
    /\ Len(report) = 3

\* C16: a body is invoked for the call at the head of the calls to make,
\* one at a time; when it returns, that call is taken off (with a Failure
\* entry if the body failed) or run() is left; and calls are only taken off
\* the head, so no call gets its body invoked a second time.
C16_NoRetry ==
    [][/\ Len(invoked') > Len(invoked)
          => /\ ~active
             /\ active'
             /\ invoked' = Append(invoked, [key |-> Head(todo).key,
                                            group |-> Head(todo).group,
                                            returned |-> "running"])
             /\ todo' = todo
       /\ (active /\ ~active')
          => IF pc' = "main" THEN todo' = todo ELSE todo' = Tail(todo)
       /\ (/\ active
           /\ ~active'
           /\ invoked'[Len(invoked')].returned \in {"ExecutionFailed", "ElevationDenied"})
          => /\ todo' = Tail(todo)
             /\ Len(report') = Len(report) + 1
             /\ report'[Len(report')].result = "Failure"
       /\ todo' # todo
          => IF todo = <<>> THEN pc' # pc ELSE todo' = Tail(todo)]_vars

\* The first body failed and was not invoked again: the second body is the
\* one of the next call, and the run ended with two entries.
C16_Witness ==
    /\ pc = "exited"
    /\ Len(invoked) = 2
    /\ invoked[1].returned = "ExecutionFailed"
    /\ invoked[2].key # invoked[1].key
    /\ Keys(report) = Keys(invoked)
    /\ report[1].result = "Failure"

\* C17: entries are shown in one step only, the summary, when every call
\* has been made and no body is running: it shows the whole Report in its
\* order and invokes nothing; once entries are shown, no body is invoked and
\* the Report and what was shown stay as they are; and a run that went
\* through the summary has shown exactly its Report.
C17_RenderedOnceAfterAllSteps ==
    [][/\ rendered' # rendered
          => /\ pc = "summary"
             /\ todo = <<>>
             /\ ~active
             /\ rendered = <<>>
             /\ rendered' = report
             /\ report' = report
             /\ invoked' = invoked
             /\ ~active'
       /\ rendered # <<>>
          => /\ rendered' = rendered
             /\ report' = report
             /\ invoked' = invoked
             /\ ~active'
       /\ (pc' \in {"post_commands", "keep_at_end", "finish"} \/ Finished')
          => rendered' = report']_vars

\* A run to the end that showed a Failure and a Skipped entry, in the order
\* in which they were recorded.
C17_Witness ==
    /\ pc = "exited"
    /\ result = "StepFailed"
    /\ Len(report) = 2
    /\ report[1].result = "Failure"
    /\ report[2].result = "Skipped"
    /\ rendered = report
    /\ Keys(rendered) = Keys(invoked)

\* C18 as stated: a run that got to the failure computation returns the
\* StepFailed sentinel exactly if it failed, and main() then exits with 1
\* and prints no error; every other error run() returns is printed once
\* before the exit with 1.
C18_EveryOtherErrorPrinted ==
    /\ Finished => (result = "StepFailed" <=> failed)
    /\ (pc = "exited" /\ result = "StepFailed") => (printed = 0 /\ exit_code = 1)
    /\ (pc = "exited" /\ result \in {"Interrupted", "Other"})
          => (printed = 1 /\ exit_code = 1)

\* C18 amended: as stated, except that an interruption (an io::Error of
\* kind Interrupted) is not printed either; main() exits with 1 all the
\* same.
C18_ErrorPrintedUnlessSentinelOrInterrupted ==
    /\ Finished => (result = "StepFailed" <=> failed)
    /\ (pc = "exited" /\ result \in {"StepFailed", "Interrupted"})
          => (printed = 0 /\ exit_code = 1)
    /\ (pc = "exited" /\ result = "Other") => (printed = 1 /\ exit_code = 1)
    /\ pc # "exited" => printed = 0

\* A run whose only failure is a recorded step: the summary was shown, the
\* sentinel came back, nothing more was printed, and the exit code is 1.
C18_Witness ==
    /\ pc = "exited"
    /\ result = "StepFailed"
    /\ HasFailure(report)
    /\ ~post_command_failed
    /\ rendered = report
    /\ printed = 0
    /\ exit_code = 1

\* The bodies that were invoked and have not returned.
Running == {i \in 1..Len(invoked) : invoked[i].returned = "running"}

\* C19: at most one body is running, and it is the one invoked last; every
\* body invoked before it has returned a step-level result and has its
\* entry in the Report.
C19_OneBodyAtATime ==
    /\ Cardinality(Running) <= 1
    /\ active <=> Running # {}
    /\ Running \subseteq {Len(invoked)}
    /\ \A i \in 1..(Len(invoked) - 1) :
          /\ invoked[i].returned \notin {"running", "Interrupted"}
          /\ i <= Len(report)
          /\ report[i].key = invoked[i].key

\* packer.nu has returned and has its entry, yadm was filtered out, and
\* the body of apm is running.
C19_Witness ==
    /\ active
    /\ ~should_run(config, "Yadm")
    /\ Keys(invoked) = <<"packer.nu", "apm">>
    /\ invoked[2].returned = "running"
    /\ Keys(report) = <<"packer.nu">>

\* C20: every step leaves the Report as it was or puts one entry behind the
\* entries it had; an entry is added only by runner.execute, when the body
\* of the call returns, and it is the entry of that call; while a body is
\* running the Report does not change.
C20_ReportAppendOnly ==
    [][/\ IsPrefix(report, report')
       /\ report' # report
          => /\ active
             /\ ~active'
             /\ \E o \in {"Success", "Skipped", "Failure"} :
                   report' = Append(report, [step |-> Head(todo).step,
                                             key |-> Head(todo).key,
                                             result |-> o])
       /\ (active /\ active') => report' = report]_vars

\* Two entries recorded under the same step with different outcomes, and a
\* third one behind them, all still there at the exit.
C20_Witness ==
    /\ pc = "exited"
    /\ Len(report) = 3
    /\ Keys(report) = Keys(invoked)
    /\ report[1].step = report[2].step
    /\ report[1].result = "Success"
    /\ report[2].result = "Failure"
    /\ report[3].result = "Skipped"

\* C21: from its construction at line 146 on, the ExecutionContext keeps its
\* run mode, its elevation provider and its view of the configuration through
\* every step invocation, elevate call and runner operation, and the
\* configuration it views stays what was loaded; the only state reached
\* through it that changes is the elevation state, and that only by an
\* elevate call that finds it unresolved.
C21_ContextImmutable ==
    [][pc # "startup"
       => /\ ctx' = ctx
          /\ config' = config
          /\ ctx.config = config
          /\ InRun => ctx.run_type = RunType_new(config.dry_run)
          /\ elevation' # elevation
                => /\ elevation = "unknown"
                   /\ \/ (bodyElev = "none" /\ bodyElev' # "none")
                      \/ (pre_sudo_result = "none" /\ pre_sudo_result' # "none")]_vars

\* Two bodies were invoked, the pre-sudo call resolved the elevation state,
\* the run is over, and the context is the one that was constructed.
C21_Witness ==
    /\ pc = "exited"
    /\ Len(invoked) = 2
    /\ pre_sudo_result = "ok"
    /\ elevation = "Available"
    /\ ctx = MakeContext(config, TRUE)
    /\ ctx.run_type = "Execute"
    /\ result = "StepFailed"

\* C22 as stated: a run that stopped early on a cancellation has reached the
\* terminal state, in which the overall failure flag is what line 578
\* computes from the Report and the post commands.
C22_TerminalStateAfterCancellation ==
    (pc = "exited" /\ result = "Interrupted")
        => failed = Overall(post_command_failed, report)

C24_PostCommandsAfterSummary ==
    [][/\ (todo' # <<>> /\ Head(todo').group = "post")
          => /\ rendered' = report'
             /\ ~active'
             /\ pc' = "keep_at_end"
             /\ result' = "running"
       /\ (todo # <<>> /\ Head(todo).group = "post")
          => /\ todo' = Tail(todo)
             /\ UNCHANGED <<pc, result, report, invoked, rendered, failed, exit_code>>
             /\ post_command_failed => post_command_failed'
       /\ post_command_failed' # post_command_failed
          => /\ todo # <<>>
             /\ Head(todo).group = "post"
             /\ post_command_failed'
       /\ (pc = "keep_at_end" /\ pc' # pc) => todo = <<>>]_vars

\* A step failed and was shown in the summary, the first post command failed
\* as well, and run() goes on to the second post command.
C24_Witness ==
    /\ pc = "keep_at_end"
    /\ result = "running"
    /\ Len(todo) = 1
    /\ Head(todo).group = "post"
    /\ Head(todo).key = "sync"
    /\ post_command_failed
    /\ HasFailure(report)
    /\ rendered = report
    /\ Len(report) = Len(Completed)

\* C25 as stated: no two entries of the Report have the same label.
C25_LabelsUnique ==
    \A i, j \in 1..Len(report) : report[i].key = report[j].key => i = j

====
